---- MODULE Spec2Model ----
(***************************************************************************)
(* Model of the two ATT&CK Navigator layer merge scripts, merge_layers.py  *)
(* and merge_navigator_layers.py: technique initialisation, the merge loop *)
(* over the imported layers, the post merge process and the layer          *)
(* metadata written before the merged layer is saved; the import of the     *)
(* JSON files with the overwrite check of merge_navigator_layers.py; and   *)
(* the scan of navigator_layers_downloader.py that selects the STIX blocks *)
(* of the requested ATT&CK ids.                                            *)
(*                                                                         *)
(* A layer is a record whose field techniques is the list of its technique *)
(* records.  An optional attribute (score, comment, enabled) is None or    *)
(* Some(v).  A comment is a sequence of one-character strings, so that the *)
(* "\n\n" separator and str.strip() are modelled character by character.   *)
(* Techniques adopted by the merged layer are shared by reference in       *)
(* Python; with technique identifiers unique within a layer a layer never  *)
(* reads a record again after it was adopted, so records are copied here.  *)
(***************************************************************************)
EXTENDS Integers, Sequences, FiniteSets, TLC

VARIABLES
    entry,          \* which script runs: "merge_layers" or "merge_navigator_layers"
    loaded,         \* the layers as imported from the JSON files (never modified)
    layers,         \* the list `layers`
    merged_layer,   \* the layer popped from `layers`, mutated into the output
    max_score,      \* max_score
    number_of_techniques_disabled,
    pc,             \* position of the script
    i,              \* index of the file, layer or STIX block the current loop is at
    j,              \* index of the technique the current loop is at
    files,          \* the JSON files of the path, in the order they are listed
    force,          \* cli_arguments.force
    existed,        \* whether the output file existed when the script started
    output,         \* the content of the output file, None while there is none
    exit_code,      \* None while the script runs
    requested,      \* the ids requested from the downloader (never modified)
    id_list,        \* id_list
    catalog,        \* all_software_stix_data / all_groups_stix_data
    stix_data       \* stix_data, as indexes of the blocks of the catalog

mergeVars == <<entry, loaded, layers, merged_layer, max_score,
               number_of_techniques_disabled, pc, i, j>>
runVars == <<files, force, existed, output, exit_code>>
scanVars == <<requested, id_list, catalog, stix_data>>
vars == <<mergeVars, runVars, scanVars>>

\* ------------------------------------------------------------------ bounds

MaxLayers == 3
MaxScore == 2
MaxBlocks == 3
MaxRequested == 3

\* ------------------------------------------------------------ basic values

None == <<>>
Some(v) == <<v>>
Val(o) == o[1]

EntryPoints == {"merge_layers", "merge_navigator_layers"}

Whitespace == {" ", "\n"}
Separator == <<"\n", "\n">>

\* Python truthiness of an attribute: None, 0, "" and False are falsy.
TruthyScore(score) == score # None /\ Val(score) # 0
TruthyComment(comment) == comment # None /\ Val(comment) # <<>>
TruthyEnabled(enabled) == enabled # None /\ Val(enabled)

\* str.strip(): leading and trailing whitespace removed.
RECURSIVE LStrip(_)
LStrip(s) ==
    IF s = <<>> THEN s
    ELSE IF Head(s) \in Whitespace THEN LStrip(Tail(s))
    ELSE s

RECURSIVE RStrip(_)
RStrip(s) ==
    IF s = <<>> THEN s
    ELSE IF s[Len(s)] \in Whitespace THEN RStrip(SubSeq(s, 1, Len(s) - 1))
    ELSE s

\* Only the prefix stripped.
StripPrefix(s) == LStrip(s)

Strip(s) == RStrip(LStrip(s))

\* --------------------------------------------------------------- functions

\* A lookup that never finds the technique.
find_technique_never(technique_id, techniques) == 0

\* find_technique_in_layer: the index of the first technique of the list with
\* the given id, 0 for None.
find_technique_in_layer(technique_id, techniques) ==
    IF \E k \in DOMAIN techniques : techniques[k].techniqueID = technique_id
    THEN CHOOSE k \in DOMAIN techniques :
            /\ techniques[k].techniqueID = technique_id
            /\ \A n \in 1..(k - 1) : techniques[n].techniqueID # technique_id
    ELSE 0

\* Initialisation with a falsy test in place of the test for None.
InitTechniqueFalsy(technique) ==
    [technique EXCEPT
        !.score = IF ~TruthyScore(@) THEN Some(0) ELSE @,
        !.comment = IF ~TruthyComment(@) THEN Some(<<>>) ELSE @,
        !.enabled = IF ~TruthyEnabled(@) THEN Some(TRUE) ELSE @]

\* Initialisation of one technique.
InitTechnique(technique) ==
    [technique EXCEPT
        !.score = IF @ = None THEN Some(0) ELSE @,
        !.comment = IF @ = None THEN Some(<<>>) ELSE @,
        !.enabled = IF @ = None THEN Some(TRUE) ELSE @]

InitTechniques(techniques) ==
    [k \in DOMAIN techniques |-> InitTechnique(techniques[k])]

\* The score assigned instead of added.
AddScoreAssign(merged_technique, this_technique) ==
    IF TruthyScore(this_technique.score)
    THEN this_technique.score
    ELSE merged_technique.score

\* The three reconciliations of a technique that already exists in merged_layer.
AddScore(merged_technique, this_technique) ==
    IF TruthyScore(this_technique.score)
    THEN Some(Val(merged_technique.score) + Val(this_technique.score))
    ELSE merged_technique.score

MergeComment(merged_technique, this_technique) ==
    IF TruthyComment(this_technique.comment)
    THEN Some(Val(merged_technique.comment) \o Separator \o Val(this_technique.comment))
    ELSE merged_technique.comment

\* The enabled flag of this layer copied whenever it is set.
MergeEnabledCopy(merged_technique, this_technique) ==
    IF this_technique.enabled # None
    THEN this_technique.enabled
    ELSE merged_technique.enabled

MergeEnabled(merged_technique, this_technique) ==
    IF this_technique.enabled # None /\ ~Val(this_technique.enabled)
    THEN Some(FALSE)
    ELSE merged_technique.enabled

MergeCharacteristics(merged_technique, this_technique) ==
    [merged_technique EXCEPT
        !.score = AddScore(merged_technique, this_technique),
        !.comment = MergeComment(merged_technique, this_technique),
        !.enabled = MergeEnabled(merged_technique, this_technique)]

\* The record of this layer put in place of the one of merged_layer.
MergeTechniqueReplace(techniques, this_technique) ==
    LET k == find_technique_in_layer(this_technique.techniqueID, techniques)
    IN  IF k # 0
        THEN [techniques EXCEPT ![k] = this_technique]
        ELSE Append(techniques, this_technique)

\* One iteration of the inner merge loop on the technique list of merged_layer.
MergeTechnique(techniques, this_technique) ==
    LET k == find_technique_in_layer(this_technique.techniqueID, techniques)
    IN  IF k # 0
        THEN [techniques EXCEPT ![k] = MergeCharacteristics(@, this_technique)]
        ELSE Append(techniques, this_technique)

\* The inner merge loop over the techniques of one layer.
RECURSIVE MergeLayer(_, _)
MergeLayer(techniques, this_techniques) ==
    IF this_techniques = <<>> THEN techniques
    ELSE MergeLayer(MergeTechnique(techniques, Head(this_techniques)),
                    Tail(this_techniques))

\* The outer merge loop over the layers left in the list.
RECURSIVE MergeLayers(_, _)
MergeLayers(techniques, ls) ==
    IF ls = <<>> THEN techniques
    ELSE MergeLayers(MergeLayer(techniques, Head(ls).techniques), Tail(ls))

\* The seed of the merge: layers.pop() takes the last layer of the list.
PopIndex(ls) == Len(ls)

InitialMaxScore(e) == IF e = "merge_layers" THEN 1 ELSE 0

\* Post merge process of one technique.
ResetDisplay(e, technique) ==
    IF e = "merge_navigator_layers"
    THEN [technique EXCEPT !.showSubtechniques = FALSE, !.color = ""]
    ELSE [technique EXCEPT !.showSubtechniques = FALSE]

\* The enabled test left out of the post merge process.
CountsAsDisabledNever(technique) == FALSE

CountsAsDisabled(technique) == ~TruthyEnabled(technique.enabled)

\* The maximum replaced by the score of every enabled technique.
UpdateMaxScoreLast(m, technique) == Val(technique.score)

UpdateMaxScore(m, technique) ==
    IF Val(technique.score) > m THEN Val(technique.score) ELSE m

StripComment(technique) ==
    IF TruthyComment(technique.comment)
    THEN [technique EXCEPT !.comment = Some(Strip(Val(@)))]
    ELSE technique

GradientColors == <<"#ffffff00", "#ff6666ff">>

\* gradient.colors, minValue and maxValue of the merged layer.
NewGradient(m) == [colors |-> GradientColors, minValue |-> 0, maxValue |-> m]

\* The two legend items appended without legendItems.clear().
NewLegendAppended(legendItems) ==
    legendItems \o <<[label |-> "La plus frequente", color |-> GradientColors[2]],
                     [label |-> "La moins frequente", color |-> GradientColors[1]]>>

\* legendItems.clear(), then the two legend items are appended.
NewLegend(legendItems) ==
    <<[label |-> "La plus frequente", color |-> GradientColors[2]],
      [label |-> "La moins frequente", color |-> GradientColors[1]]>>

\* ------------------------------------------------------------------ inputs

TechniqueRecords(ids, scores, comments, enableds, shows, colors) ==
    [techniqueID : ids, score : scores, comment : comments,
     enabled : enableds, showSubtechniques : shows, color : colors]

UniqueIDs(techniques) ==
    \A a, b \in DOMAIN techniques :
        a # b => techniques[a].techniqueID # techniques[b].techniqueID

\* The technique lists over a set of records, identifiers unique within a list.
TechniqueLists(records) ==
    LET ids == {r.techniqueID : r \in records}
    IN  {s \in UNION {[1..n -> records] : n \in 0..Cardinality(ids)} : UniqueIDs(s)}

SeedGradient == [colors |-> <<"#ff6666ff", "#ffe766ff", "#8ec843ff">>,
                 minValue |-> 0, maxValue |-> 100]

LayerOf(techniques) ==
    [techniques |-> techniques, gradient |-> SeedGradient, legendItems |-> <<>>]

LayerListsUpTo(records, max) ==
    UNION {[1..n -> {LayerOf(t) : t \in TechniqueLists(records)}] : n \in 1..max}

LayerLists(records) == LayerListsUpTo(records, MaxLayers)

Scores == {None} \cup {Some(s) : s \in 0..MaxScore}
Enableds == {None, Some(TRUE), Some(FALSE)}
Comments == {None, Some(<<"x">>), Some(<<"y">>),
             Some(<<" ", "x">>), Some(<<"y", "\n">>), Some(<<" ">>)}

\* Scores of one technique across the layers, enabled or disabled.
ScoreInputs ==
    LayerLists(TechniqueRecords({"T1"}, Scores, {Some(<<>>)},
                                {Some(TRUE), Some(FALSE)}, {FALSE}, {""}))

\* Enabled flags of one technique across the layers.
EnabledInputs ==
    LayerLists(TechniqueRecords({"T1"}, {Some(1)}, {Some(<<>>)}, Enableds,
                                {FALSE}, {""}))

\* Comments of one technique across the layers.
CommentInputs ==
    LayerLists(TechniqueRecords({"T1"}, {Some(1)}, Comments,
                                {Some(TRUE), Some(FALSE)}, {FALSE}, {""}))

\* Two techniques with every optional attribute absent, spread over the
\* layers, in either order within a layer.
IdentifierInputs ==
    LayerLists(TechniqueRecords({"T1", "T2"}, {None}, {None}, {None},
                                {TRUE}, {"#e60d0d"}))

\* Two scored and commented techniques, enabled or disabled, over one layer
\* less.
MixedInputs ==
    LayerListsUpTo(TechniqueRecords({"T1", "T2"}, {Some(MaxScore)}, {Some(<<"x">>)},
                                    {Some(TRUE), Some(FALSE)}, {TRUE}, {""}),
                   MaxLayers - 1)

\* The two documents of the end-to-end scenario.
Tech(id, score, enabled) ==
    [techniqueID |-> id, score |-> Some(score), comment |-> None,
     enabled |-> Some(enabled), showSubtechniques |-> TRUE, color |-> ""]

Doc1 == LayerOf(<<Tech("T1", 5, TRUE), Tech("T2", 2, TRUE)>>)
Doc2 == LayerOf(<<Tech("T1", 3, FALSE), Tech("T3", 1, TRUE)>>)
ScenarioInputs == {<<Doc1, Doc2>>, <<Doc2, Doc1>>}

Inputs ==
    ScoreInputs \cup EnabledInputs \cup CommentInputs \cup IdentifierInputs
        \cup MixedInputs \cup ScenarioInputs

\* The whole post merge process on a technique list.
PostMergeProcess(e, techniques) ==
    [k \in DOMAIN techniques |->
        IF CountsAsDisabled(techniques[k])
        THEN ResetDisplay(e, techniques[k])
        ELSE StripComment(ResetDisplay(e, techniques[k]))]

\* The overwrite check with --force ignored.
RefusesOverwriteAlways(e, exists, f) == e = "merge_navigator_layers" /\ exists

\* The overwrite check: only merge_navigator_layers has one.
RefusesOverwrite(e, exists, f) == e = "merge_navigator_layers" /\ exists /\ ~f

\* A JSONDecodeError that never ends the run.
DecodeErrorNeverFatal(e) == FALSE

\* On a JSONDecodeError merge_layers calls exit(1), merge_navigator_layers
\* continues with the next file.
DecodeErrorIsFatal(e) == e = "merge_layers"

\* A JSON file: a Navigator layer, or a file json cannot decode.
FileOf(layer) == [valid |-> TRUE, layer |-> layer]
MalformedFile == [valid |-> FALSE, layer |-> LayerOf(<<>>)]

\* The output file a former run left.
OldOutput == LayerOf(<<>>)

SeedLegends == {<<>>, <<[label |-> "old", color |-> "#000000ff"]>>}

\* The files of a path: malformed ones, and layers with one technique at most
\* and the legend they were saved with.
RunFiles ==
    {MalformedFile} \cup
    {FileOf([LayerOf(t) EXCEPT !.legendItems = g]) :
        t \in TechniqueLists(TechniqueRecords({"T1"}, {Some(MaxScore)}, {Some(<<"x">>)},
                                              {Some(TRUE), Some(FALSE)}, {TRUE}, {""})),
        g \in SeedLegends}

FileLists == UNION {[1..n -> RunFiles] : n \in 0..MaxLayers}

\* ----------------------------------------------------------------- actions

Init ==
    /\ entry \in EntryPoints
    /\ loaded \in Inputs
    /\ layers = loaded
    /\ merged_layer = LayerOf(<<>>)
    /\ max_score = 0
    /\ number_of_techniques_disabled = 0
    /\ pc = "initialize"
    /\ i = 1
    /\ j = 1
    /\ files = [k \in DOMAIN loaded |-> FileOf(loaded[k])]
    /\ force = FALSE
    /\ existed = FALSE
    /\ output = None
    /\ exit_code = None
    /\ requested = <<>>
    /\ id_list = <<>>
    /\ catalog = <<>>
    /\ stix_data = <<>>

\* Initialisation of the techniques of one layer.
InitializeLayer ==
    /\ pc = "initialize"
    /\ i <= Len(layers)
    /\ layers' = [layers EXCEPT ![i].techniques = InitTechniques(@)]
    /\ i' = i + 1
    /\ UNCHANGED <<entry, loaded, merged_layer, max_score,
                   number_of_techniques_disabled, pc, j>>
    /\ UNCHANGED <<runVars, scanVars>>

\* merged_layer = layers.pop(); max_score and the disabled counter are set.
PopMergedLayer ==
    /\ pc = "initialize"
    /\ i > Len(layers)
    /\ merged_layer' = layers[PopIndex(layers)]
    /\ layers' = [k \in 1..(Len(layers) - 1) |->
                    IF k < PopIndex(layers) THEN layers[k] ELSE layers[k + 1]]
    /\ max_score' = InitialMaxScore(entry)
    /\ number_of_techniques_disabled' = 0
    /\ pc' = "merge"
    /\ i' = 1
    /\ j' = 1
    /\ UNCHANGED <<entry, loaded>>
    /\ UNCHANGED <<runVars, scanVars>>

\* One technique of the current layer is merged into merged_layer.
MergeStep ==
    /\ pc = "merge"
    /\ i <= Len(layers)
    /\ j <= Len(layers[i].techniques)
    /\ merged_layer' = [merged_layer EXCEPT
            !.techniques = MergeTechnique(@, layers[i].techniques[j])]
    /\ j' = j + 1
    /\ UNCHANGED <<entry, loaded, layers, max_score,
                   number_of_techniques_disabled, pc, i>>
    /\ UNCHANGED <<runVars, scanVars>>

\* The inner loop is exhausted: next layer.
MergeNextLayer ==
    /\ pc = "merge"
    /\ i <= Len(layers)
    /\ j > Len(layers[i].techniques)
    /\ i' = i + 1
    /\ j' = 1
    /\ UNCHANGED <<entry, loaded, layers, merged_layer, max_score,
                   number_of_techniques_disabled, pc>>
    /\ UNCHANGED <<runVars, scanVars>>

\* The outer loop is exhausted: the post merge process starts.
MergeDone ==
    /\ pc = "merge"
    /\ i > Len(layers)
    /\ pc' = "post"
    /\ j' = 1
    /\ UNCHANGED <<entry, loaded, layers, merged_layer, max_score,
                   number_of_techniques_disabled, i>>
    /\ UNCHANGED <<runVars, scanVars>>

\* Post merge process of a technique that is not enabled.
PostDisabled ==
    /\ pc = "post"
    /\ j <= Len(merged_layer.techniques)
    /\ CountsAsDisabled(merged_layer.techniques[j])
    /\ merged_layer' = [merged_layer EXCEPT !.techniques[j] = ResetDisplay(entry, @)]
    /\ number_of_techniques_disabled' = number_of_techniques_disabled + 1
    /\ j' = j + 1
    /\ UNCHANGED <<entry, loaded, layers, max_score, pc, i>>
    /\ UNCHANGED <<runVars, scanVars>>

\* Post merge process of an enabled technique.
PostEnabled ==
    /\ pc = "post"
    /\ j <= Len(merged_layer.techniques)
    /\ ~CountsAsDisabled(merged_layer.techniques[j])
    /\ max_score' = UpdateMaxScore(max_score, merged_layer.techniques[j])
    /\ merged_layer' = [merged_layer EXCEPT
            !.techniques[j] = StripComment(ResetDisplay(entry, @))]
    /\ j' = j + 1
    /\ UNCHANGED <<entry, loaded, layers, number_of_techniques_disabled, pc, i>>
    /\ UNCHANGED <<runVars, scanVars>>

\* Gradient and legend of the merged layer, then the layer is saved.
SetMetadata ==
    /\ pc = "post"
    /\ j > Len(merged_layer.techniques)
    /\ merged_layer' = [merged_layer EXCEPT
            !.gradient = NewGradient(max_score),
            !.legendItems = NewLegend(@)]
    /\ output' = Some(merged_layer')
    /\ exit_code' = Some(0)
    /\ pc' = "done"
    /\ UNCHANGED <<entry, loaded, layers, max_score,
                   number_of_techniques_disabled, i, j>>
    /\ UNCHANGED <<files, force, existed, scanVars>>

Next ==
    \/ InitializeLayer
    \/ PopMergedLayer
    \/ MergeStep
    \/ MergeNextLayer
    \/ MergeDone
    \/ PostDisabled
    \/ PostEnabled
    \/ SetMetadata

Spec == Init /\ [][Next]_vars

\* ------------------------------------------ the run from the command line on

InitRun ==
    /\ entry \in EntryPoints
    /\ files \in FileLists
    /\ force \in BOOLEAN
    /\ existed \in BOOLEAN
    /\ output = IF existed THEN Some(OldOutput) ELSE None
    /\ exit_code = None
    /\ loaded = <<>>
    /\ layers = <<>>
    /\ merged_layer = LayerOf(<<>>)
    /\ max_score = 0
    /\ number_of_techniques_disabled = 0
    /\ pc = "start"
    /\ i = 1
    /\ j = 1
    /\ requested = <<>>
    /\ id_list = <<>>
    /\ catalog = <<>>
    /\ stix_data = <<>>

\* The output file exists and --force was not given: exit(1).
RefuseOverwrite ==
    /\ pc = "start"
    /\ RefusesOverwrite(entry, output # None, force)
    /\ exit_code' = Some(1)
    /\ pc' = "exit"
    /\ UNCHANGED <<entry, loaded, layers, merged_layer, max_score,
                   number_of_techniques_disabled, i, j>>
    /\ UNCHANGED <<files, force, existed, output, scanVars>>

\* Otherwise the import of the files starts.
BeginImport ==
    /\ pc = "start"
    /\ ~RefusesOverwrite(entry, output # None, force)
    /\ pc' = "import"
    /\ i' = 1
    /\ UNCHANGED <<entry, loaded, layers, merged_layer, max_score,
                   number_of_techniques_disabled, j>>
    /\ UNCHANGED <<runVars, scanVars>>

\* Layer.from_file succeeds: the layer is appended.
ImportLayer ==
    /\ pc = "import"
    /\ i <= Len(files)
    /\ files[i].valid
    /\ layers' = Append(layers, files[i].layer)
    /\ loaded' = Append(loaded, files[i].layer)
    /\ i' = i + 1
    /\ UNCHANGED <<entry, merged_layer, max_score,
                   number_of_techniques_disabled, pc, j>>
    /\ UNCHANGED <<runVars, scanVars>>

\* Layer.from_file raises JSONDecodeError and the script calls exit(1).
ImportFailureExit ==
    /\ pc = "import"
    /\ i <= Len(files)
    /\ ~files[i].valid
    /\ DecodeErrorIsFatal(entry)
    /\ exit_code' = Some(1)
    /\ pc' = "exit"
    /\ UNCHANGED <<entry, loaded, layers, merged_layer, max_score,
                   number_of_techniques_disabled, i, j>>
    /\ UNCHANGED <<files, force, existed, output, scanVars>>

\* Layer.from_file raises JSONDecodeError and the script continues.
ImportFailureSkip ==
    /\ pc = "import"
    /\ i <= Len(files)
    /\ ~files[i].valid
    /\ ~DecodeErrorIsFatal(entry)
    /\ i' = i + 1
    /\ UNCHANGED <<entry, loaded, layers, merged_layer, max_score,
                   number_of_techniques_disabled, pc, j>>
    /\ UNCHANGED <<runVars, scanVars>>

\* No layer was imported: nothing to merge, the run ends with code 0.
NothingToDo ==
    /\ pc = "import"
    /\ i > Len(files)
    /\ layers = <<>>
    /\ exit_code' = Some(0)
    /\ pc' = "exit"
    /\ UNCHANGED <<entry, loaded, layers, merged_layer, max_score,
                   number_of_techniques_disabled, i, j>>
    /\ UNCHANGED <<files, force, existed, output, scanVars>>

\* All files were read and some layer was imported.
ImportDone ==
    /\ pc = "import"
    /\ i > Len(files)
    /\ layers # <<>>
    /\ pc' = "initialize"
    /\ i' = 1
    /\ UNCHANGED <<entry, loaded, layers, merged_layer, max_score,
                   number_of_techniques_disabled, j>>
    /\ UNCHANGED <<runVars, scanVars>>

NextRun ==
    \/ RefuseOverwrite
    \/ BeginImport
    \/ ImportLayer
    \/ ImportFailureExit
    \/ ImportFailureSkip
    \/ NothingToDo
    \/ ImportDone
    \/ Next

SpecRun == InitRun /\ [][NextRun]_vars

TypeOK ==
    /\ entry \in EntryPoints
    /\ pc \in {"initialize", "merge", "post", "done"}
    /\ max_score \in Nat
    /\ number_of_techniques_disabled \in Nat

\* --------------------------------------------- the id scan of the downloader

\* is_stix_block_of_attack_id
is_stix_block_of_attack_id(stix_block, attack_id) ==
    \E n \in DOMAIN stix_block.external_references :
        /\ stix_block.external_references[n].source_name = "mitre-attack"
        /\ stix_block.external_references[n].external_id = attack_id

\* The index of the first id of the list the block is of, 0 when there is none.
FirstMatchingId(stix_block, ids) ==
    IF \E k \in DOMAIN ids : is_stix_block_of_attack_id(stix_block, ids[k])
    THEN CHOOSE k \in DOMAIN ids :
            /\ is_stix_block_of_attack_id(stix_block, ids[k])
            /\ \A n \in 1..(k - 1) : ~is_stix_block_of_attack_id(stix_block, ids[n])
    ELSE 0

\* list.remove(x): the first item equal to x is removed.
ListRemove(ids, x) ==
    LET k == CHOOSE n \in DOMAIN ids : ids[n] = x /\ \A m \in 1..(n - 1) : ids[m] # x
    IN  [n \in 1..(Len(ids) - 1) |-> IF n < k THEN ids[n] ELSE ids[n + 1]]

AttackIds == {"S0001", "S0002"}

\* STIX blocks with one external reference at most.
StixBlocks ==
    {[external_references |-> refs] :
        refs \in {<<>>} \cup
                 {<<[source_name |-> src, external_id |-> id]>> :
                    src \in {"mitre-attack", "capec"}, id \in AttackIds}}

InitScan ==
    /\ requested \in UNION {[1..n -> AttackIds] : n \in 1..MaxRequested}
    /\ id_list = requested
    /\ catalog \in UNION {[1..n -> StixBlocks] : n \in 0..MaxBlocks}
    /\ stix_data = <<>>
    /\ pc = "scan"
    /\ i = 1
    /\ j = 1
    /\ entry = "navigator_layers_downloader"
    /\ loaded = <<>>
    /\ layers = <<>>
    /\ merged_layer = LayerOf(<<>>)
    /\ max_score = 0
    /\ number_of_techniques_disabled = 0
    /\ files = <<>>
    /\ force = FALSE
    /\ existed = FALSE
    /\ output = None
    /\ exit_code = None

\* The block is of an id of the list: it is selected and the id removed.
ScanBlockMatch ==
    /\ pc = "scan"
    /\ i <= Len(catalog)
    /\ id_list # <<>>
    /\ FirstMatchingId(catalog[i], id_list) # 0
    /\ stix_data' = Append(stix_data, i)
    /\ id_list' = ListRemove(id_list, id_list[FirstMatchingId(catalog[i], id_list)])
    /\ i' = i + 1
    /\ UNCHANGED <<entry, loaded, layers, merged_layer, max_score,
                   number_of_techniques_disabled, pc, j>>
    /\ UNCHANGED <<runVars, requested, catalog>>

\* The block is of no id of the list.
ScanBlockNoMatch ==
    /\ pc = "scan"
    /\ i <= Len(catalog)
    /\ id_list # <<>>
    /\ FirstMatchingId(catalog[i], id_list) = 0
    /\ i' = i + 1
    /\ UNCHANGED <<entry, loaded, layers, merged_layer, max_score,
                   number_of_techniques_disabled, pc, j>>
    /\ UNCHANGED <<runVars, scanVars>>

\* The catalog is exhausted or the list is empty: the ids left are reported.
ScanEnd ==
    /\ pc = "scan"
    /\ i > Len(catalog) \/ id_list = <<>>
    /\ pc' = "scanned"
    /\ UNCHANGED <<entry, loaded, layers, merged_layer, max_score,
                   number_of_techniques_disabled, i, j>>
    /\ UNCHANGED <<runVars, scanVars>>

NextScan ==
    \/ ScanBlockMatch
    \/ ScanBlockNoMatch
    \/ ScanEnd

SpecScan == InitScan /\ [][NextScan]_vars

\* ------------------------------------------------- vocabulary of the claims

Output == merged_layer.techniques
Done == pc = "done"
Merging == pc \in {"merge", "post", "done"}

Has(layer, id) == \E n \in DOMAIN layer.techniques : layer.techniques[n].techniqueID = id
IndexOf(layer, id) == CHOOSE n \in DOMAIN layer.techniques : layer.techniques[n].techniqueID = id
RecordOf(layer, id) == layer.techniques[IndexOf(layer, id)]
IdsOf(layer) == {layer.techniques[n].techniqueID : n \in DOMAIN layer.techniques}
LoadedIds == UNION {IdsOf(loaded[k]) : k \in DOMAIN loaded}
HoldersOf(id) == {k \in DOMAIN loaded : Has(loaded[k], id)}

Default(o, d) == IF o = None THEN Some(d) ELSE o
ScoreIn(layer, id) ==
    IF Has(layer, id) /\ RecordOf(layer, id).score # None
    THEN Val(RecordOf(layer, id).score) ELSE 0

SeedIndex == Len(loaded)
\* The loaded layers whose record of id the merge has folded so far
\* (the seed, the layers the loop is past, the current layer up to j).
FoldedLayers(id) ==
    {k \in DOMAIN loaded :
        /\ Has(loaded[k], id)
        /\ \/ k = SeedIndex
           \/ k < i
           \/ pc = "merge" /\ k = i /\ IndexOf(loaded[k], id) < j}

RECURSIVE SumScores(_, _)
SumScores(ks, id) ==
    IF ks = {} THEN 0
    ELSE LET k == CHOOSE x \in ks : TRUE
         IN  ScoreIn(loaded[k], id) + SumScores(ks \ {k}, id)

Maximum(S) == CHOOSE m \in S : \A n \in S : n <= m

X == <<"x">>
Y == <<"y">>

\* -------------------------------------------------------------------- claims

\* C1 (as claimed): in a run on the list [A, B], where technique T is enabled
\* in both layers with comment a in A and comment b in B (a, b being "x" and
\* "y" in either order), the merged comment of T is a, a blank line, b.
C1_CommentFollowsInputOrder ==
    Done =>
        \A id \in LoadedIds : \A a, b \in {X, Y} :
            ( /\ Len(loaded) = 2
              /\ a # b
              /\ Has(loaded[1], id) /\ Has(loaded[2], id)
              /\ RecordOf(loaded[1], id).comment = Some(a)
              /\ RecordOf(loaded[2], id).comment = Some(b)
              /\ RecordOf(loaded[1], id).enabled = Some(TRUE)
              /\ RecordOf(loaded[2], id).enabled = Some(TRUE) )
            => \E n \in DOMAIN Output :
                    /\ Output[n].techniqueID = id
                    /\ Output[n].comment = Some(a \o Separator \o b)

\* C2: during and after the merge, the score of every technique of the merged
\* layer is the sum of its scores in the layers folded so far (an absent score
\* counting 0), so at the end it is the sum over all layers holding it and a
\* layer whose score is 0 or absent leaves it as it was.
C2_ScoreIsSum ==
    Merging =>
        \A n \in DOMAIN Output :
            Output[n].score =
                Some(SumScores(FoldedLayers(Output[n].techniqueID), Output[n].techniqueID))

C2_Witness ==
    /\ Done
    /\ Len(loaded) = 3
    /\ \E n \in DOMAIN Output :
        /\ HoldersOf(Output[n].techniqueID) = {1, 2, 3}
        /\ RecordOf(loaded[1], Output[n].techniqueID).score = Some(2)
        /\ RecordOf(loaded[2], Output[n].techniqueID).score \in {None, Some(0)}
        /\ RecordOf(loaded[3], Output[n].techniqueID).score = Some(1)
        /\ Output[n].score = Some(3)

\* C3: during and after the merge, a technique that is disabled in any layer
\* folded so far (the seed included) is disabled in the merged layer, whatever
\* the order of the layers: a later enabled or absent flag never re-enables it.
C3_DisabledStays ==
    Merging =>
        \A n \in DOMAIN Output :
            (\E k \in FoldedLayers(Output[n].techniqueID) :
                RecordOf(loaded[k], Output[n].techniqueID).enabled = Some(FALSE))
            => Output[n].enabled = Some(FALSE)

C3_Witness ==
    /\ Done
    /\ Len(loaded) = 3
    /\ \E n \in DOMAIN Output :
        /\ HoldersOf(Output[n].techniqueID) = {1, 2, 3}
        /\ RecordOf(loaded[1], Output[n].techniqueID).enabled = Some(FALSE)
        /\ RecordOf(loaded[2], Output[n].techniqueID).enabled = Some(TRUE)
        /\ RecordOf(loaded[3], Output[n].techniqueID).enabled = None
        /\ Output[n].enabled = Some(FALSE)

\* C4 (as claimed): a technique held by exactly one layer is in the output
\* with every attribute as in that layer (absent attributes at their
\* defaults), except showSubtechniques, which is false.
C4_SingleSourceUnchanged ==
    Done =>
        \A id \in LoadedIds :
            Cardinality(HoldersOf(id)) = 1 =>
                LET r == RecordOf(loaded[CHOOSE k \in HoldersOf(id) : TRUE], id)
                IN  \E n \in DOMAIN Output :
                        Output[n] = [techniqueID |-> r.techniqueID,
                                     score |-> Default(r.score, 0),
                                     comment |-> Default(r.comment, <<>>),
                                     enabled |-> Default(r.enabled, TRUE),
                                     showSubtechniques |-> FALSE,
                                     color |-> r.color]

\* C4 (amended): a technique held by exactly one layer is in the output with
\* its identifier, score and enabled flag as in that layer (absent ones at
\* their defaults); its comment is that layer's comment when the technique is
\* disabled and that comment stripped of leading and trailing whitespace when
\* it is enabled; showSubtechniques is false, and merge_navigator_layers also
\* sets color to the empty string.
C4_SingleSourceStripped ==
    Done =>
        \A id \in LoadedIds :
            Cardinality(HoldersOf(id)) = 1 =>
                LET r == RecordOf(loaded[CHOOSE k \in HoldersOf(id) : TRUE], id)
                    c == Val(Default(r.comment, <<>>))
                    first == CHOOSE a \in 0..Len(c) :
                                /\ \A m \in 1..a : c[m] \in Whitespace
                                /\ a < Len(c) => c[a + 1] \notin Whitespace
                    last == CHOOSE b \in 0..Len(c) :
                                /\ \A m \in (b + 1)..Len(c) : c[m] \in Whitespace
                                /\ b > 0 => c[b] \notin Whitespace
                IN  \E n \in DOMAIN Output :
                        Output[n] = [techniqueID |-> r.techniqueID,
                                     score |-> Default(r.score, 0),
                                     comment |-> IF r.enabled = Some(FALSE) THEN Some(c)
                                                 ELSE Some(SubSeq(c, first + 1, last)),
                                     enabled |-> Default(r.enabled, TRUE),
                                     showSubtechniques |-> FALSE,
                                     color |-> IF entry = "merge_navigator_layers"
                                               THEN "" ELSE r.color]

C4_Witness ==
    /\ Done
    /\ Len(loaded) = 3
    /\ \E id \in LoadedIds :
        /\ HoldersOf(id) = {2}
        /\ RecordOf(loaded[2], id).comment = Some(<<"y", "\n">>)
        /\ RecordOf(loaded[2], id).enabled = Some(TRUE)
        /\ \E n \in DOMAIN Output :
            Output[n].techniqueID = id /\ Output[n].comment = Some(<<"y">>)

\* C5 (as claimed): in both scripts the gradient written to the merged layer
\* has minValue = 0 < maxValue.
C5_GradientWellFormed ==
    Done =>
        /\ merged_layer.gradient.minValue = 0
        /\ merged_layer.gradient.minValue < merged_layer.gradient.maxValue

\* C6: gradient.maxValue is the maximum of the script's initial value and the
\* scores of the techniques enabled after the merge; the score of a disabled
\* technique is not part of it.
C6_MaxOverEnabled ==
    Done =>
        merged_layer.gradient.maxValue =
            Maximum({IF entry = "merge_layers" THEN 1 ELSE 0}
                    \cup {Val(Output[n].score) :
                            n \in {m \in DOMAIN Output : Output[m].enabled = Some(TRUE)}})

C6_Witness ==
    /\ Done
    /\ \E n, m \in DOMAIN Output :
        /\ Output[n].enabled = Some(FALSE)
        /\ Output[m].enabled = Some(TRUE)
        /\ Val(Output[n].score) > merged_layer.gradient.maxValue
        /\ Val(Output[m].score) = merged_layer.gradient.maxValue

\* C7: the output holds exactly one technique record for each technique
\* identifier of the loaded layers: none twice, none dropped.
C7_OneRecordPerId ==
    Done =>
        /\ UniqueIDs(Output)
        /\ {Output[n].techniqueID : n \in DOMAIN Output} = LoadedIds

C7_Witness ==
    /\ Done
    /\ Len(loaded) = 3
    /\ HoldersOf("T1") = {1, 2, 3}
    /\ HoldersOf("T2") = {1, 2}
    /\ Len(Output) = 2

\* C8: the end-to-end scenario, in either order of the two documents and in
\* both scripts: T1 has score 8 and is disabled, T2 has score 2 and T3 score 1
\* and both are enabled, the maximum enabled score is 2, one technique is
\* counted disabled.
C8_Scenario ==
    (Done /\ loaded \in {<<Doc1, Doc2>>, <<Doc2, Doc1>>}) =>
        /\ {<<Output[n].techniqueID, Output[n].score, Output[n].enabled>> :
                n \in DOMAIN Output}
           = {<<"T1", Some(8), Some(FALSE)>>, <<"T2", Some(2), Some(TRUE)>>,
              <<"T3", Some(1), Some(TRUE)>>}
        /\ Len(Output) = 3
        /\ max_score = 2
        /\ merged_layer.gradient.maxValue = 2
        /\ number_of_techniques_disabled = 1

C8_Witness ==
    /\ Done
    /\ loaded = <<Doc2, Doc1>>
    /\ entry = "merge_navigator_layers"
    /\ max_score = 2
    /\ number_of_techniques_disabled = 1

\* C9: with the seed fixed, folding the other layers in any order gives the
\* same technique identifiers, scores and enabled flags as the run did.
Summary(techniques) ==
    {<<techniques[n].techniqueID, techniques[n].score, techniques[n].enabled>> :
        n \in DOMAIN techniques}

Reordered(ls, p) == [k \in DOMAIN ls |-> ls[p[k]]]

InitializedLoaded ==
    [k \in DOMAIN loaded |->
        [loaded[k] EXCEPT !.techniques = InitTechniques(@)]]

C9_FoldOrderIrrelevant ==
    pc \in {"post", "done"} =>
        LET seed == InitializedLoaded[SeedIndex]
            others == SubSeq(InitializedLoaded, 1, Len(loaded) - 1)
        IN  \A p \in Permutations(DOMAIN others) :
                /\ Summary(MergeLayers(seed.techniques, Reordered(others, p)))
                   = Summary(Output)
                /\ Len(MergeLayers(seed.techniques, Reordered(others, p)))
                   = Len(Output)

C9_Witness ==
    /\ Done
    /\ Len(loaded) = 3
    /\ HoldersOf("T1") = {1, 2, 3}
    /\ RecordOf(loaded[1], "T1").score = Some(1)
    /\ RecordOf(loaded[2], "T1").score = Some(2)
    /\ RecordOf(loaded[1], "T1").enabled = Some(FALSE)
    /\ RecordOf(loaded[2], "T1").enabled = Some(TRUE)
    /\ RecordOf(loaded[3], "T1").enabled = Some(TRUE)

\* C10: once the techniques of a layer are initialised, every record has score
\* 0 where it was absent, the empty comment where it was absent and enabled
\* true where it was absent, every present value and every other field of the
\* record and of the layer is as loaded, and initialising the layer again
\* changes nothing; the layers not yet reached are as loaded.
C10_InitialisationFillsDefaults ==
    pc = "initialize" =>
        \A k \in DOMAIN layers :
            IF k < i
            THEN /\ layers[k].gradient = loaded[k].gradient
                 /\ layers[k].legendItems = loaded[k].legendItems
                 /\ DOMAIN layers[k].techniques = DOMAIN loaded[k].techniques
                 /\ \A n \in DOMAIN layers[k].techniques :
                        LET r == loaded[k].techniques[n]
                        IN  layers[k].techniques[n] =
                              [techniqueID |-> r.techniqueID,
                               score |-> IF r.score = None THEN Some(0) ELSE r.score,
                               comment |-> IF r.comment = None THEN Some(<<>>)
                                           ELSE r.comment,
                               enabled |-> IF r.enabled = None THEN Some(TRUE)
                                           ELSE r.enabled,
                               showSubtechniques |-> r.showSubtechniques,
                               color |-> r.color]
                 /\ InitTechniques(layers[k].techniques) = layers[k].techniques
            ELSE layers[k] = loaded[k]

C10_Witness ==
    /\ pc = "initialize"
    /\ i = 2
    /\ Len(layers) >= 2
    /\ \E n \in DOMAIN layers[1].techniques :
        /\ loaded[1].techniques[n].score = None
        /\ loaded[1].techniques[n].comment = None
        /\ loaded[1].techniques[n].enabled = None
        /\ loaded[1].techniques[n].color # ""
        /\ layers[1].techniques[n].score = Some(0)
        /\ layers[1].techniques[n].comment = Some(<<>>)
        /\ layers[1].techniques[n].enabled = Some(TRUE)
        /\ layers[1].techniques[n].color = loaded[1].techniques[n].color
    /\ layers[2].techniques # <<>>
    /\ layers[2] = loaded[2]

\* C11: in merge_navigator_layers, when the output file existed at the start
\* and --force was not given, the run ends with exit code 1 with no layer
\* imported, initialised or merged and the output file as it was; when the
\* file was absent or --force was given, the run never ends with code 1 and
\* ends only after the import loop has gone through every file.
InitialOutput == IF existed THEN Some(OldOutput) ELSE None

C11_OverwriteRefusedBeforeAnyWork ==
    entry = "merge_navigator_layers" =>
        IF existed /\ ~force
        THEN /\ pc \in {"start", "exit"}
             /\ loaded = <<>> /\ layers = <<>>
             /\ merged_layer = LayerOf(<<>>)
             /\ output = InitialOutput
             /\ pc = "exit" => exit_code = Some(1)
        ELSE /\ exit_code # Some(1)
             /\ pc = "exit" => (exit_code = Some(0) /\ i = Len(files) + 1)
             /\ pc # "start" => pc \in {"import", "initialize", "merge", "post",
                                         "done", "exit"}

C11_Witness ==
    /\ entry = "merge_navigator_layers"
    /\ existed /\ ~force
    /\ Len(files) = 2 /\ files[1].valid /\ files[2].valid
    /\ files[1].layer.techniques # <<>>
    /\ pc = "exit"
    /\ exit_code = Some(1)
    /\ output = Some(OldOutput)

\* C12: on a file that cannot be decoded, merge_layers ends with exit code 1
\* at that file and writes no merged file; merge_navigator_layers skips the
\* file, and what it writes is the merge of the layers of the other files
\* (nothing, with exit code 0, when there is none).
ValidLayers ==
    LET valid == SelectSeq(files, LAMBDA f : f.valid)
    IN  [k \in DOMAIN valid |-> valid[k].layer]

FirstMalformed ==
    CHOOSE k \in DOMAIN files :
        ~files[k].valid /\ \A n \in 1..(k - 1) : files[n].valid

C12_MalformedFile ==
    (\E k \in DOMAIN files : ~files[k].valid) =>
        IF entry = "merge_layers"
        THEN /\ pc \in {"start", "import", "exit"}
             /\ output = InitialOutput
             /\ pc = "exit" =>
                    /\ exit_code = Some(1)
                    /\ i = FirstMalformed
                    /\ Len(layers) = FirstMalformed - 1
        ELSE /\ Done =>
                    /\ loaded = ValidLayers
                    /\ exit_code = Some(0)
                    /\ output = Some(merged_layer)
                    /\ Output =
                        PostMergeProcess(entry,
                            MergeLayers(InitTechniques(ValidLayers[Len(ValidLayers)].techniques),
                                [k \in 1..(Len(ValidLayers) - 1) |->
                                    [ValidLayers[k] EXCEPT
                                        !.techniques = InitTechniques(@)]]))
             /\ (pc = "exit" /\ ~(existed /\ ~force)) =>
                    /\ ValidLayers = <<>>
                    /\ exit_code = Some(0)
                    /\ output = InitialOutput

C12_Witness ==
    /\ entry = "merge_navigator_layers"
    /\ Done
    /\ Len(files) = 3
    /\ files[1].valid /\ ~files[2].valid /\ files[3].valid
    /\ Len(Output) = 1
    /\ Output[1].score = Some(2 * MaxScore)
    /\ output = Some(merged_layer)

\* C13: the gradient of the written layer has minValue 0, maxValue the
\* computed maximum and the colors "#ffffff00", "#ff6666ff", and its legend is
\* two items, the first with the high color of the gradient and the second
\* with the low one, whatever legend the seed layer had.
C13_GradientAndLegend ==
    Done =>
        /\ output = Some(merged_layer)
        /\ merged_layer.gradient.minValue = 0
        /\ merged_layer.gradient.maxValue = max_score
        /\ merged_layer.gradient.colors = <<"#ffffff00", "#ff6666ff">>
        /\ Len(merged_layer.legendItems) = 2
        /\ merged_layer.legendItems[1].color = "#ff6666ff"
        /\ merged_layer.legendItems[2].color = "#ffffff00"
        /\ merged_layer.legendItems[1].label # merged_layer.legendItems[2].label

C13_Witness ==
    /\ Done
    /\ loaded[Len(loaded)].legendItems # <<>>
    /\ Len(merged_layer.legendItems) = 2
    /\ max_score = 2 * MaxScore

\* C14 (as claimed): when a non-empty comment (here one without outer
\* whitespace, so that stripping cannot change it) is merged into a technique
\* whose comment in merged_layer is empty, and no other layer has a comment
\* for the technique, the comment of the technique in the output is exactly
\* that comment, with no leading separator, whether the technique ends up
\* enabled or disabled.
FirstHolder(id) ==
    IF Has(loaded[SeedIndex], id) THEN SeedIndex
    ELSE CHOOSE k \in HoldersOf(id) : \A n \in HoldersOf(id) : k <= n

C14_NoLeadingSeparator ==
    Done =>
        \A id \in LoadedIds : \A k \in HoldersOf(id) :
            LET c == RecordOf(loaded[k], id).comment
            IN  ( /\ k # FirstHolder(id)
                  /\ TruthyComment(c)
                  /\ Val(c)[1] \notin Whitespace
                  /\ Val(c)[Len(Val(c))] \notin Whitespace
                  /\ \A n \in HoldersOf(id) \ {k} :
                        ~TruthyComment(RecordOf(loaded[n], id).comment) )
                => \E m \in DOMAIN Output :
                        /\ Output[m].techniqueID = id
                        /\ Output[m].comment = c

\* C15 (as claimed): after the scan, the ids left in id_list, reported as not
\* found, are exactly the requested ids that no block of the catalog is of,
\* and no block of the catalog is selected twice.
C15_PendingAreTheUnmatched ==
    pc = "scanned" =>
        /\ {id_list[k] : k \in DOMAIN id_list}
           = {requested[k] : k \in {n \in DOMAIN requested :
                \A b \in DOMAIN catalog :
                    ~is_stix_block_of_attack_id(catalog[b], requested[n])}}
        /\ \A a, b \in DOMAIN stix_data : a # b => stix_data[a] # stix_data[b]

====
